---- MODULE Spec2Model ----
(***************************************************************************)
(* A model of bot/cogs/code_formatting.py: the CodeFormatting cog that     *)
(* detects improperly formatted Markdown code blocks in chat messages,     *)
(* sends formatting instructions and deletes them once the message is      *)
(* fixed by an edit.                                                       *)
(*                                                                         *)
(* Text is a sequence of characters; a character is a one-element string   *)
(* (the non-ASCII ticks are written by their code point).                  *)
(***************************************************************************)
EXTENDS Integers, Sequences, FiniteSets, TLC

(***************************************************************************)
(* Characters and constants of the module (lines 17-50).                   *)
(***************************************************************************)
BACKTICK == "U+0060"
ACUTE == "U+00B4"
NL == "\n"
SP == " "

TICKS ==
    { BACKTICK, "U+0027", "U+0022", ACUTE, "U+2018", "U+2019", "U+2032",
      "U+201C", "U+201D", "U+2033", "U+3003" }

\* Order is important; "py" is second cause it's a subset.
PY_LANG_CODES == << <<"p", "y", "t", "h", "o", "n">>, <<"p", "y">> >>

LowerLetters == {"p", "y", "t", "h", "o", "n", "x"}
UpperLetters == {"P", "Y", "X"}

\* [^\W_] : a word character other than the underscore.
IsAlnum(ch) == ch \in LowerLetters \cup UpperLetters

\* The characters str.strip() and str.lstrip() remove.
IsSpace(ch) == ch \in {SP, NL}

(***************************************************************************)
(* String helpers: the str methods the cog uses.                           *)
(***************************************************************************)
NoneVal == [kind |-> "None"]
IndexError == [kind |-> "IndexError"]

LowerChar(ch) ==
    CASE ch = "P" -> "p"
      [] ch = "Y" -> "y"
      [] ch = "X" -> "x"
      [] OTHER -> ch

Lower(s) == [i \in 1..Len(s) |-> LowerChar(s[i])]

StartsWith(s, prefix) ==
    /\ Len(prefix) <= Len(s)
    /\ \A i \in 1..Len(prefix) : s[i] = prefix[i]

RECURSIVE LStrip(_)
LStrip(s) ==
    IF s # <<>> /\ IsSpace(Head(s)) THEN LStrip(Tail(s)) ELSE s

RECURSIVE RStrip(_)
RStrip(s) ==
    IF s # <<>> /\ IsSpace(s[Len(s)]) THEN RStrip(SubSeq(s, 1, Len(s) - 1)) ELSE s

Strip(s) == RStrip(LStrip(s))

\* The number of "\n" in s.
RECURSIVE CountNL(_)
CountNL(s) ==
    IF s = <<>> THEN 0
    ELSE (IF Head(s) = NL THEN 1 ELSE 0) + CountNL(Tail(s))

\* len(s.split("\n", 3)): at most three splits are made.
SplitLen3(s) == IF CountNL(s) >= 3 THEN 4 ELSE CountNL(s) + 1

\* s.split("\n"): the pieces between line breaks (a final empty piece included).
RECURSIVE SplitNL(_, _)
SplitNL(s, cur) ==
    IF s = <<>> THEN <<cur>>
    ELSE IF Head(s) = NL THEN <<cur>> \o SplitNL(Tail(s), <<>>)
    ELSE SplitNL(Tail(s), Append(cur, Head(s)))

\* s.splitlines(): as split("\n"), without the empty piece after a final line break.
SplitLines(s) ==
    LET parts == SplitNL(s, <<>>)
    IN  IF parts[Len(parts)] = <<>> THEN SubSeq(parts, 1, Len(parts) - 1) ELSE parts

(***************************************************************************)
(* RE_CODE_BLOCK (lines 31-42) and its use by finditer.                    *)
(***************************************************************************)
\* (?P<ticks>(?P<tick>[TICKS])\2{2}) matches at position i.
TicksAt(s, i) ==
    /\ i >= 1
    /\ i + 2 <= Len(s)
    /\ s[i] \in TICKS
    /\ s[i + 1] = s[i]
    /\ s[i + 2] = s[i]

\* The first position >= from where the three ticks c occur again; 0 if none.
CloseFrom(s, c, from) ==
    LET ends == {e \in from..(Len(s) - 2) : s[e] = c /\ s[e + 1] = c /\ s[e + 2] = c}
    IN  IF ends = {} THEN 0 ELSE CHOOSE e \in ends : \A f \in ends : e <= f

\* (?P<lang>[^\W_]+\n) at position j: the position of its line break; 0 if it
\* does not match there.
LangEnd(s, j) ==
    LET stops == {k \in j..Len(s) : ~IsAlnum(s[k])}
        k == IF stops = {} THEN 0 ELSE CHOOSE a \in stops : \A b \in stops : a <= b
    IN  IF k > j /\ s[k] = NL THEN k ELSE 0

NoMatch == [found |-> FALSE]

\* One attempt of the pattern anchored at i. The optional language group is
\* greedy: it is tried first and given up when the rest cannot match.
MatchAt(s, i) ==
    IF ~TicksAt(s, i) THEN NoMatch
    ELSE
        LET c == s[i]
            k == LangEnd(s, i + 3)
            e1 == IF k = 0 THEN 0 ELSE CloseFrom(s, c, k + 2)
            e2 == CloseFrom(s, c, i + 4)
        IN  IF e1 # 0
            THEN [found |-> TRUE, start |-> i, tick |-> c,
                  lang |-> SubSeq(s, i + 3, k),
                  code |-> SubSeq(s, k + 1, e1 - 1), end |-> e1 + 3]
            ELSE IF e2 # 0
            THEN [found |-> TRUE, start |-> i, tick |-> c,
                  lang |-> <<>>,
                  code |-> SubSeq(s, i + 3, e2 - 1), end |-> e2 + 3]
            ELSE NoMatch

\* RE_CODE_BLOCK.finditer(message): the leftmost match at or after pos, then
\* the matches after its end (matches do not overlap).
RECURSIVE FindIter(_, _)
FindIter(s, pos) ==
    LET starts == {i \in pos..Len(s) : MatchAt(s, i).found}
    IN  IF starts = {} THEN <<>>
        ELSE LET i == CHOOSE a \in starts : \A b \in starts : a <= b
                 m == MatchAt(s, i)
             IN  <<m>> \o FindIter(s, m.end)

CodeBlock(content, language, tick) ==
    [content |-> content, language |-> language, tick |-> tick]

RECURSIVE ScanMatches(_, _)
ScanMatches(matches, code_blocks) ==
    IF matches = <<>> THEN code_blocks
    ELSE
        LET groups == Head(matches)
            language == Strip(groups.lang)
        IN  IF groups.tick = BACKTICK /\ language # <<>>
            THEN <<>>
            ELSE IF SplitLen3(groups.code) > 3
            THEN ScanMatches(Tail(matches),
                             Append(code_blocks,
                                    CodeBlock(groups.code, language, groups.tick)))
            ELSE ScanMatches(Tail(matches), code_blocks)

find_code_blocks(message) == ScanMatches(FindIter(message, 1), <<>>)

(***************************************************************************)
(* The classifier: is_repl_code (lines 231-246) and is_python_code         *)
(* (lines 266-286).                                                        *)
(***************************************************************************)
REPL_PROMPT == <<">", ">", ">", SP>>
REPL_CONT == <<".", ".", ".", SP>>
DefaultThreshold == 3

RECURSIVE ReplLoop(_, _, _)
ReplLoop(lines, repl_lines, threshold) ==
    IF lines = <<>> THEN FALSE
    ELSE
        LET line == Head(lines)
            n == IF StartsWith(line, REPL_PROMPT) \/ StartsWith(line, REPL_CONT)
                 THEN repl_lines + 1 ELSE repl_lines
        IN  IF n = threshold THEN TRUE ELSE ReplLoop(Tail(lines), n, threshold)

\* One more line than the threshold is asked for.
is_repl_code_above_threshold(content, threshold) ==
    ReplLoop(SplitLines(content), 0, threshold + 1)

is_repl_code(content, threshold) == ReplLoop(SplitLines(content), 0, threshold)

\* ast.parse on the characters the texts of this model are made of: names,
\* "=", "...", spaces and line breaks. A logical line is blank, an expression
\* statement (a name or an Ellipsis), an assignment NAME = ... = atom, or a
\* SyntaxError (a tick, a prompt marker, an indented line, two atoms in a row,
\* a missing operand, an Ellipsis as assignment target).
RECURSIVE ScanLine(_, _, _)
ScanLine(line, st, assigns) ==
    IF line = <<>> THEN
        IF st \in {"name", "ell", "gapname", "gapell"}
        THEN (IF assigns > 0 THEN "assign" ELSE "expr")
        ELSE "error"
    ELSE
        LET ch == Head(line)
            rest == Tail(line)
        IN  CASE st \in {"start", "eq"} ->
                   IF IsAlnum(ch) THEN ScanLine(rest, "name", assigns)
                   ELSE IF ch = "." THEN ScanLine(rest, "dot1", assigns)
                   ELSE IF ch = SP /\ st = "eq" THEN ScanLine(rest, "eq", assigns)
                   ELSE "error"
              [] st = "name" ->
                   IF IsAlnum(ch) THEN ScanLine(rest, "name", assigns)
                   ELSE IF ch = SP THEN ScanLine(rest, "gapname", assigns)
                   ELSE IF ch = "=" THEN ScanLine(rest, "eq", assigns + 1)
                   ELSE "error"
              [] st = "dot1" ->
                   IF ch = "." THEN ScanLine(rest, "dot2", assigns) ELSE "error"
              [] st = "dot2" ->
                   IF ch = "." THEN ScanLine(rest, "ell", assigns) ELSE "error"
              [] st = "ell" ->
                   IF ch = SP THEN ScanLine(rest, "gapell", assigns) ELSE "error"
              [] st = "gapname" ->
                   IF ch = SP THEN ScanLine(rest, "gapname", assigns)
                   ELSE IF ch = "=" THEN ScanLine(rest, "eq", assigns + 1)
                   ELSE "error"
              [] st = "gapell" ->
                   IF ch = SP THEN ScanLine(rest, "gapell", assigns) ELSE "error"
              [] OTHER -> "error"

LineKind(line) ==
    IF \A i \in 1..Len(line) : line[i] = SP THEN "blank"
    ELSE ScanLine(line, "start", 0)

is_python_code(content) ==
    LET lines == SplitNL(content, <<>>)
        kinds == {LineKind(lines[i]) : i \in 1..Len(lines)}
    IN  IF "error" \in kinds THEN FALSE       \* except SyntaxError: return False
        ELSE "assign" \in kinds               \* not all(isinstance(node, ast.Expr) ...)

(***************************************************************************)
(* The composer: the instructions are records naming the template and what *)
(* is formatted into it.                                                   *)
(***************************************************************************)
\* EXAMPLE_PY.format(lang=...) inside EXAMPLE_CODE_BLOCKS (lines 45-50).
ExamplePy(lang) == [example |-> "EXAMPLE_PY", lang |-> lang]
ExampleForeign(lang) == [example |-> "foreign", lang |-> lang]
ExampleHello == [example |-> "Hello, world!", lang |-> <<>>]

Python == PY_LANG_CODES[1]

get_no_ticks_message(content) ==
    IF is_repl_code(content, DefaultThreshold) \/ is_python_code(content)
    THEN [kind |-> "no_ticks", example |-> ExamplePy(Python)]
    ELSE NoneVal

get_bad_lang_message(content) ==
    LET stripped == Lower(LStrip(content))
        found == {i \in 1..Len(PY_LANG_CODES) : StartsWith(stripped, PY_LANG_CODES[i])}
    IN  IF found = {} THEN NoneVal
        ELSE
            LET lang == PY_LANG_CODES[CHOOSE i \in found : \A j \in found : i <= j]
            IN  IF Len(stripped) <= Len(lang) THEN IndexError   \* stripped[len(lang)]
                ELSE [kind |-> "bad_lang",
                      lang |-> lang,
                      leading_space |-> StartsWith(content, <<SP>>),
                      no_newline |-> stripped[Len(lang) + 1] # NL,
                      example |-> ExamplePy(lang)]

get_no_lang_message(content) ==
    IF is_repl_code(content, DefaultThreshold) \/ is_python_code(content)
    THEN [kind |-> "no_lang", example |-> ExamplePy(Python)]
    ELSE NoneVal

IsPyLang(language) ==
    \E i \in 1..Len(PY_LANG_CODES) : Lower(language) = PY_LANG_CODES[i]

get_bad_ticks_message(code_block) ==
    LET bad_lang == get_bad_lang_message(code_block.content)
        addition_msg == IF bad_lang = NoneVal
                        THEN get_no_lang_message(code_block.content)
                        ELSE bad_lang
        content == IF IsPyLang(code_block.language)
                   THEN ExamplePy(code_block.language)
                   ELSE IF code_block.language # <<>>
                   THEN ExampleForeign(code_block.language)
                   ELSE ExampleHello
    IN  IF bad_lang = IndexError THEN IndexError
        ELSE [kind |-> "bad_ticks",
              valid_ticks |-> <<"\\", BACKTICK, "\\", BACKTICK, "\\", BACKTICK>>,
              wrong_ticks |-> <<code_block.tick, code_block.tick, code_block.tick>>,
              furthermore |-> addition_msg,
              example |-> IF addition_msg # NoneVal THEN NoneVal ELSE content]

\* Lines 343-361 of on_message: the description for a message's content.
Description(content) ==
    LET blocks == find_code_blocks(content)
        bad == {i \in 1..Len(blocks) : blocks[i].tick # BACKTICK}
    IN  IF blocks = <<>> THEN get_no_ticks_message(content)
        ELSE IF bad # {}
        THEN get_bad_ticks_message(blocks[CHOOSE i \in bad : \A j \in bad : i <= j])
        ELSE
            LET block == blocks[1]
                description == get_bad_lang_message(block.content)
            IN  IF description = NoneVal
                THEN get_no_lang_message(block.content)
                ELSE description

(***************************************************************************)
(* The cog's state, the messaging collaborator and the handlers in flight. *)
(***************************************************************************)
VARIABLES
    channel_cooldowns,      \* self.channel_cooldowns: channel id -> epoch time
    codeblock_message_ids,  \* self.codeblock_message_ids: message id -> bot message id
    DEBUG_MODE,             \* bot.constants.DEBUG_MODE
    clock,                  \* time.time()
    next_id,                \* the least message id not yet stored or awaited by the cog
    bot_messages,           \* the instruction messages that exist at the collaborator
    deletion_tasks,         \* bot messages a wait_for_deletion task watches
    tasks,                  \* the handlers suspended at an await, by slot
    issued,                 \* channel id -> time the last instructions were sent there
    flagged,                \* message ids that ever had an entry in codeblock_message_ids
    last,                   \* the handler step taken last and how it ended
    text,                   \* a text under inspection
    parts,                  \* number of parts the text was put together from
    blocks,                 \* find_code_blocks(text)
    description,            \* the instructions composed for text
    corpus                  \* what the cog computes from each text users post

cogVars ==
    <<channel_cooldowns, codeblock_message_ids, DEBUG_MODE, clock, next_id,
      bot_messages, deletion_tasks, tasks, issued, flagged, last>>
textVars == <<text, parts, blocks, description, corpus>>
vars == <<cogVars, textVars>>

\* Bounds of the model.
MaxId == 4
MaxTicks == 2
TickStep == 150
Epoch == 1000
MaxParts == 2

Cooldown == 300

Slots == {1, 2}

\* Channels and Categories of bot.constants, as far as the cog reads them.
python_discussion == "python_discussion"
bot_commands == "bot_commands"
help_available == "help_available"
help_in_use == "help_in_use"

AllChannels ==
    { [id |-> python_discussion, category |-> "discussion"],
      [id |-> bot_commands, category |-> "discussion"],
      [id |-> "help_1", category |-> help_in_use],
      [id |-> "off_topic", category |-> "discussion"] }

channel_whitelist == {bot_commands}

Put(map, k, v) == [x \in DOMAIN map \cup {k} |-> IF x = k THEN v ELSE map[x]]
Del(map, k) == [x \in DOMAIN map \ {k} |-> map[x]]
\* dict.get(k, default)
Get(map, k, default) == IF k \in DOMAIN map THEN map[k] ELSE default

\* The texts of the messages and edits the handlers are run on.
Cat3(a, b, c) == a \o b \o c
Fence(c) == <<c, c, c>>
Assign == <<"x", "=", "x">>
Py == <<"p", "y">>
Lines4(l) == l \o <<NL>> \o l \o <<NL>> \o l \o <<NL>> \o l
Code4 == Lines4(Assign)

UnfencedCode == Code4
WrongTicks == Cat3(Fence(ACUTE), Code4, Fence(ACUTE))
NoLanguage == Cat3(Fence(BACKTICK), <<NL>> \o Code4, Fence(BACKTICK))
WellFormed == Cat3(Fence(BACKTICK), Py \o <<NL>> \o Code4, Fence(BACKTICK))
BareTag == Cat3(Fence(BACKTICK), <<NL, NL, NL>> \o Py, Fence(BACKTICK))
OneLine == Assign

\* The texts users post, by name.
Contents == {"UnfencedCode", "WrongTicks", "NoLanguage", "WellFormed", "BareTag", "OneLine"}

TextOf(c) ==
    CASE c = "UnfencedCode" -> UnfencedCode
      [] c = "WrongTicks" -> WrongTicks
      [] c = "NoLanguage" -> NoLanguage
      [] c = "WellFormed" -> WellFormed
      [] c = "BareTag" -> BareTag
      [] c = "OneLine" -> OneLine

\* The texts a tracked message is edited to.
EditContents == {"UnfencedCode", "NoLanguage", "WellFormed"}

\* payload.data.get("content"): a text, or None when the key is missing.
Str(c) == [kind |-> "str", text |-> c]

Messages ==
    [id : {next_id}, author_bot : BOOLEAN, channel : AllChannels,
     content : Contents, has_token : BOOLEAN]

Payloads ==
    [message_id : 1..next_id,
     content : {Str(c) : c \in EditContents} \cup {NoneVal},
     channel_id : {"present", "None"}]

Idle == [pc |-> "idle"]
NoStep ==
    [handler |-> "none", id |-> 0, channel |-> "none", outcome |-> "none",
     stale |-> FALSE]

FreeSlot == CHOOSE k \in Slots : tasks[k] = Idle /\ \A j \in Slots : tasks[j] = Idle => k <= j

Init ==
    /\ channel_cooldowns = [c \in {python_discussion} |-> 0]
    /\ codeblock_message_ids = <<>>
    /\ DEBUG_MODE \in BOOLEAN
    /\ clock = Epoch
    /\ next_id = 1
    /\ bot_messages = {}
    /\ deletion_tasks = {}
    /\ tasks = [k \in Slots |-> Idle]
    /\ issued = <<>>
    /\ flagged = {}
    /\ last = NoStep
    /\ corpus = [c \in Contents |->
                     [lines |-> SplitLen3(TextOf(c)),
                      blocks |-> find_code_blocks(TextOf(c)),
                      description |-> Description(TextOf(c))]]
    /\ text = <<>>
    /\ parts = 0
    /\ blocks = <<>>
    /\ description = NoneVal

(***************************************************************************)
(* The eligibility checks (lines 248-264, 288-295, 313-329).               *)
(***************************************************************************)
is_help_channel(channel) == channel.category \in {help_available, help_in_use}

\* A cooldown of 5 (minutes) compared with a difference in seconds.
is_on_cooldown_in_minutes(channel) ==
    (clock - Get(channel_cooldowns, channel.id, 0)) < 5

is_on_cooldown(channel) == (clock - Get(channel_cooldowns, channel.id, 0)) < Cooldown

is_valid_channel(channel) ==
    \/ is_help_channel(channel)
    \/ channel.id \in DOMAIN channel_cooldowns
    \/ channel.id \in channel_whitelist

\* len(content.split("\n", 3)), find_code_blocks(content) and the composed
\* description of a text users post.
LinesOf(c) == corpus[c].lines
BlocksOf(c) == corpus[c].blocks
DescriptionOf(c) == corpus[c].description

\* should_parse without the token check.
ShouldParseResult_without_token(message) ==
    IF message.author_bot THEN "author_bot"
    ELSE IF ~is_valid_channel(message.channel) THEN "invalid_channel"
    ELSE IF ~(LinesOf(message.content) > 3) THEN "short"
    ELSE "parse"

\* The first condition of should_parse that fails, in evaluation order;
\* "parse" when none does. TokenRemover.find_token_in_message is the
\* message's has_token.
ShouldParseResult(message) ==
    IF message.author_bot THEN "author_bot"
    ELSE IF ~is_valid_channel(message.channel) THEN "invalid_channel"
    ELSE IF ~(LinesOf(message.content) > 3) THEN "short"
    ELSE IF message.has_token THEN "token"
    ELSE "parse"

should_parse(message) == ShouldParseResult(message) = "parse"

\* What is remembered of the step taken last: the handler, the channel of the
\* message (on_message), the message id and whether its bot message was
\* already gone when the edit arrived (on_raw_message_edit), and how it ended.
Step(handler, channel, outcome) ==
    [handler |-> handler, id |-> 0, channel |-> channel, outcome |-> outcome,
     stale |-> FALSE]

EditStep(id, outcome, stale) ==
    [handler |-> "on_raw_message_edit", id |-> id, channel |-> "none",
     outcome |-> outcome, stale |-> stale]

\* The outcomes that are an exception leaving the handler.
Errors == {"IndexError", "NotFound", "KeyError"}

\* Handlers are dispatched as tasks: a new one may start while another is
\* suspended at an await. With serial, a notification is handled to
\* completion before the next is accepted.
CanStart(serial) ==
    IF serial THEN \A k \in Slots : tasks[k] = Idle
    ELSE \E k \in Slots : tasks[k] = Idle

PendingSends == Cardinality({k \in Slots : tasks[k].pc = "send"})

(***************************************************************************)
(* on_message (lines 331-367), up to the await of send_guide_embed.        *)
(***************************************************************************)
on_message(msg, serial) ==
    /\ CanStart(serial)
    /\ next_id + PendingSends < MaxId
    /\ LET verdict == ShouldParseResult(msg)
           d == DescriptionOf(msg.content)
           outcome ==
               IF verdict # "parse" THEN verdict
               ELSE IF is_on_cooldown(msg.channel) /\ ~DEBUG_MODE THEN "cooldown"
               ELSE IF d = IndexError THEN "IndexError"
               ELSE IF d = NoneVal THEN "no_description"
               ELSE "awaiting_send"
       IN  /\ last' = Step("on_message", msg.channel.id, outcome)
           /\ IF outcome = "awaiting_send"
              THEN /\ tasks' = [tasks EXCEPT ![FreeSlot] =
                                   [pc |-> "send", message_id |-> msg.id,
                                    channel_id |-> msg.channel.id]]
                   /\ next_id' = next_id + 1
              ELSE UNCHANGED <<tasks, next_id>>
    /\ UNCHANGED <<channel_cooldowns, codeblock_message_ids, DEBUG_MODE, clock,
                   bot_messages, deletion_tasks, issued, flagged, textVars>>

\* message.channel.send (line 306): the collaborator creates the bot message.
channel_send(k) ==
    /\ tasks[k].pc = "send"
    /\ next_id <= MaxId
    /\ next_id' = next_id + 1
    /\ bot_messages' = bot_messages \cup {next_id}
    /\ issued' = Put(issued, tasks[k].channel_id, clock)
    /\ tasks' = [tasks EXCEPT ![k] = [@ EXCEPT !.pc = "sent"] @@ [bot_message |-> next_id]]
    /\ last' = Step("on_message", tasks[k].channel_id, "delivered")
    /\ UNCHANGED <<channel_cooldowns, codeblock_message_ids, DEBUG_MODE, clock,
                   deletion_tasks, flagged, textVars>>

\* The cooldown is recorded for every channel, whitelisted or not.
send_guide_embed_stamping_whitelist(k) ==
    /\ tasks[k].pc = "sent"
    /\ LET message_id == tasks[k].message_id
           channel_id == tasks[k].channel_id
           bot_message == tasks[k].bot_message
       IN  /\ codeblock_message_ids' = Put(codeblock_message_ids, message_id, bot_message)
           /\ flagged' = flagged \cup {message_id}
           /\ deletion_tasks' = deletion_tasks \cup {bot_message}
           /\ channel_cooldowns' = Put(channel_cooldowns, channel_id, clock)
           /\ last' = Step("on_message", channel_id, "sent")
    /\ tasks' = [tasks EXCEPT ![k] = Idle]
    /\ UNCHANGED <<DEBUG_MODE, clock, next_id, bot_messages, issued, textVars>>

\* The entry is stored with key and value swapped.
send_guide_embed_swapped(k) ==
    /\ tasks[k].pc = "sent"
    /\ LET message_id == tasks[k].message_id
           channel_id == tasks[k].channel_id
           bot_message == tasks[k].bot_message
       IN  /\ codeblock_message_ids' = Put(codeblock_message_ids, bot_message, message_id)
           /\ flagged' = flagged \cup {bot_message}
           /\ deletion_tasks' = deletion_tasks \cup {bot_message}
           /\ channel_cooldowns' =
                  IF channel_id \notin channel_whitelist
                  THEN Put(channel_cooldowns, channel_id, clock)
                  ELSE channel_cooldowns
           /\ last' = Step("on_message", channel_id, "sent")
    /\ tasks' = [tasks EXCEPT ![k] = Idle]
    /\ UNCHANGED <<DEBUG_MODE, clock, next_id, bot_messages, issued, textVars>>

\* send_guide_embed after the await (lines 307-311), then lines 365-367.
send_guide_embed(k) ==
    /\ tasks[k].pc = "sent"
    /\ LET message_id == tasks[k].message_id
           channel_id == tasks[k].channel_id
           bot_message == tasks[k].bot_message
       IN  /\ codeblock_message_ids' = Put(codeblock_message_ids, message_id, bot_message)
           /\ flagged' = flagged \cup {message_id}
           /\ deletion_tasks' = deletion_tasks \cup {bot_message}
           /\ channel_cooldowns' =
                  IF channel_id \notin channel_whitelist
                  THEN Put(channel_cooldowns, channel_id, clock)
                  ELSE channel_cooldowns
           /\ last' = Step("on_message", channel_id, "sent")
    /\ tasks' = [tasks EXCEPT ![k] = Idle]
    /\ UNCHANGED <<DEBUG_MODE, clock, next_id, bot_messages, issued, textVars>>

(***************************************************************************)
(* wait_for_deletion (bot.utils.messages): the bot message is deleted      *)
(* after 5 minutes or when its author dismisses it.                        *)
(***************************************************************************)
wait_for_deletion(bot_message) ==
    /\ bot_message \in deletion_tasks
    /\ deletion_tasks' = deletion_tasks \ {bot_message}
    /\ bot_messages' = bot_messages \ {bot_message}
    /\ last' = Step("wait_for_deletion", "none", "deleted")
    /\ UNCHANGED <<channel_cooldowns, codeblock_message_ids, DEBUG_MODE, clock,
                   next_id, tasks, issued, flagged, textVars>>

\* The instructions are deleted when the edit still has code blocks.
on_raw_message_edit_inverted(payload, serial) ==
    /\ CanStart(serial)
    /\ LET ignored ==
               \/ payload.message_id \notin DOMAIN codeblock_message_ids
               \/ payload.content = NoneVal
               \/ payload.channel_id = "None"
           code_blocks == BlocksOf(payload.content.text)
           bot_message == codeblock_message_ids[payload.message_id]
       IN  IF ignored
           THEN /\ last' = EditStep(payload.message_id, "ignored", FALSE)
                /\ UNCHANGED tasks
           ELSE IF code_blocks = <<>>
           THEN /\ last' = EditStep(payload.message_id, "not_fixed", FALSE)
                /\ UNCHANGED tasks
           ELSE /\ tasks' = [tasks EXCEPT ![FreeSlot] =
                                [pc |-> "fetch", message_id |-> payload.message_id,
                                 bot_message |-> bot_message,
                                 stale |-> bot_message \notin bot_messages]]
                /\ last' = EditStep(payload.message_id, "awaiting_fetch",
                                    bot_message \notin bot_messages)
    /\ UNCHANGED <<channel_cooldowns, codeblock_message_ids, DEBUG_MODE, clock, next_id,
                   bot_messages, deletion_tasks, issued, flagged, textVars>>

\* The payload's channel id is not checked.
on_raw_message_edit_any_channel(payload, serial) ==
    /\ CanStart(serial)
    /\ LET ignored ==
               \/ payload.message_id \notin DOMAIN codeblock_message_ids
               \/ payload.content = NoneVal
           code_blocks == BlocksOf(payload.content.text)
           bot_message == codeblock_message_ids[payload.message_id]
       IN  IF ignored
           THEN /\ last' = EditStep(payload.message_id, "ignored", FALSE)
                /\ UNCHANGED tasks
           ELSE IF code_blocks # <<>>
           THEN /\ last' = EditStep(payload.message_id, "not_fixed", FALSE)
                /\ UNCHANGED tasks
           ELSE /\ tasks' = [tasks EXCEPT ![FreeSlot] =
                                [pc |-> "fetch", message_id |-> payload.message_id,
                                 bot_message |-> bot_message,
                                 stale |-> bot_message \notin bot_messages]]
                /\ last' = EditStep(payload.message_id, "awaiting_fetch",
                                    bot_message \notin bot_messages)
    /\ UNCHANGED <<channel_cooldowns, codeblock_message_ids, DEBUG_MODE, clock, next_id,
                   bot_messages, deletion_tasks, issued, flagged, textVars>>

(***************************************************************************)
(* on_raw_message_edit (lines 369-394).                                    *)
(***************************************************************************)
on_raw_message_edit(payload, serial) ==
    /\ CanStart(serial)
    /\ LET ignored ==
               \/ payload.message_id \notin DOMAIN codeblock_message_ids
               \/ payload.content = NoneVal
               \/ payload.channel_id = "None"
           code_blocks == BlocksOf(payload.content.text)
           bot_message == codeblock_message_ids[payload.message_id]
       IN  IF ignored
           THEN /\ last' = EditStep(payload.message_id, "ignored", FALSE)
                /\ UNCHANGED tasks
           ELSE IF code_blocks # <<>>
           THEN /\ last' = EditStep(payload.message_id, "not_fixed", FALSE)
                /\ UNCHANGED tasks
           ELSE /\ tasks' = [tasks EXCEPT ![FreeSlot] =
                                [pc |-> "fetch", message_id |-> payload.message_id,
                                 bot_message |-> bot_message,
                                 stale |-> bot_message \notin bot_messages]]
                /\ last' = EditStep(payload.message_id, "awaiting_fetch",
                                    bot_message \notin bot_messages)
    /\ UNCHANGED <<channel_cooldowns, codeblock_message_ids, DEBUG_MODE, clock, next_id,
                   bot_messages, deletion_tasks, issued, flagged, textVars>>

\* channel.fetch_message returns or raises NotFound (line 391); on success
\* bot_message.delete() is called (line 393).
fetch_message(k) ==
    /\ tasks[k].pc = "fetch"
    /\ IF tasks[k].bot_message \in bot_messages
       THEN /\ tasks' = [tasks EXCEPT ![k].pc = "delete"]
            /\ last' = EditStep(tasks[k].message_id, "awaiting_delete", tasks[k].stale)
       ELSE /\ tasks' = [tasks EXCEPT ![k] = Idle]
            /\ last' = EditStep(tasks[k].message_id, "NotFound", tasks[k].stale)
    /\ UNCHANGED <<channel_cooldowns, codeblock_message_ids, DEBUG_MODE, clock, next_id,
                   bot_messages, deletion_tasks, issued, flagged, textVars>>

\* The bot message is deleted and its entry is left in place.
delete_keeping_entry(k) ==
    /\ tasks[k].pc = "delete"
    /\ tasks' = [tasks EXCEPT ![k] = Idle]
    /\ IF tasks[k].bot_message \notin bot_messages
       THEN /\ last' = EditStep(tasks[k].message_id, "NotFound", tasks[k].stale)
            /\ UNCHANGED <<bot_messages, codeblock_message_ids>>
       ELSE /\ bot_messages' = bot_messages \ {tasks[k].bot_message}
            /\ IF tasks[k].message_id \in DOMAIN codeblock_message_ids
               THEN /\ codeblock_message_ids' = codeblock_message_ids
                    /\ last' = EditStep(tasks[k].message_id, "fixed", tasks[k].stale)
               ELSE /\ codeblock_message_ids' = codeblock_message_ids
                    /\ last' = EditStep(tasks[k].message_id, "KeyError", tasks[k].stale)
    /\ UNCHANGED <<channel_cooldowns, DEBUG_MODE, clock, next_id, deletion_tasks,
                   issued, flagged, textVars>>

\* bot_message.delete() returns or raises NotFound (line 393); on success the
\* entry is deleted (line 394), which raises KeyError when it is missing.
delete(k) ==
    /\ tasks[k].pc = "delete"
    /\ tasks' = [tasks EXCEPT ![k] = Idle]
    /\ IF tasks[k].bot_message \notin bot_messages
       THEN /\ last' = EditStep(tasks[k].message_id, "NotFound", tasks[k].stale)
            /\ UNCHANGED <<bot_messages, codeblock_message_ids>>
       ELSE /\ bot_messages' = bot_messages \ {tasks[k].bot_message}
            /\ IF tasks[k].message_id \in DOMAIN codeblock_message_ids
               THEN /\ codeblock_message_ids' =
                          Del(codeblock_message_ids, tasks[k].message_id)
                    /\ last' = EditStep(tasks[k].message_id, "fixed", tasks[k].stale)
               ELSE /\ codeblock_message_ids' = codeblock_message_ids
                    /\ last' = EditStep(tasks[k].message_id, "KeyError", tasks[k].stale)
    /\ UNCHANGED <<channel_cooldowns, DEBUG_MODE, clock, next_id, deletion_tasks,
                   issued, flagged, textVars>>

\* time.time() advances.
Tick ==
    /\ clock < Epoch + MaxTicks * TickStep
    /\ clock' = clock + TickStep
    /\ UNCHANGED <<channel_cooldowns, codeblock_message_ids, DEBUG_MODE, next_id,
                   bot_messages, deletion_tasks, tasks, issued, flagged, last,
                   textVars>>

NewMessage == \E msg \in Messages : on_message(msg, TRUE)
MessageEdit == \E payload \in Payloads : on_raw_message_edit(payload, TRUE)
SendDone == \E k \in Slots : channel_send(k)
SendResumed == \E k \in Slots : send_guide_embed(k)
FetchDone == \E k \in Slots : fetch_message(k)
DeleteDone == \E k \in Slots : delete(k)
Expiry == \E b \in deletion_tasks : wait_for_deletion(b)

\* A notification is handled to completion before the next is accepted;
\* the deletion tasks and the clock run alongside.
Next ==
    \/ NewMessage
    \/ MessageEdit
    \/ SendDone
    \/ SendResumed
    \/ FetchDone
    \/ DeleteDone
    \/ Expiry
    \/ Tick

Spec == Init /\ [][Next]_vars

\* Every notification starts a handler of its own: a handler may start
\* while another is suspended at an await. The clock stands still.
NewMessageTask == \E msg \in Messages : on_message(msg, FALSE)
MessageEditTask == \E payload \in Payloads : on_raw_message_edit(payload, FALSE)

NextConcurrent ==
    \/ NewMessageTask
    \/ MessageEditTask
    \/ SendDone
    \/ SendResumed
    \/ FetchDone
    \/ DeleteDone
    \/ Expiry

SpecConcurrent == Init /\ [][NextConcurrent]_vars

(***************************************************************************)
(* The extractor and the composer on texts put together from fenced        *)
(* blocks, fences and unfenced lines.                                      *)
(***************************************************************************)
Code3 == Assign \o <<NL>> \o Assign \o <<NL>> \o Assign
PromptLine == REPL_PROMPT \o <<"x", NL>>
ContLine == REPL_CONT \o <<"x", NL>>

\* What follows the opening ticks, the body of a block, and unfenced text.
Heads ==
    { <<>>, Py \o <<NL>>, Py \o <<SP>>, <<SP>> \o Py \o <<NL>>, <<NL>>, <<NL, NL, NL>>,
      <<NL>> \o Py \o <<NL>> }
Bodies == { Code4, Code3, Py }
Plain == { Code4, PromptLine, PromptLine \o ContLine, <<NL>> }
GenTicks == { BACKTICK, ACUTE }

Inspect(t) ==
    /\ text' = t
    /\ parts' = parts + 1
    /\ blocks' = find_code_blocks(t)
    /\ description' = Description(t)
    /\ UNCHANGED <<cogVars, corpus>>

AppendBlock(c, head, body) ==
    /\ parts < MaxParts
    /\ Inspect(text \o Fence(c) \o head \o body \o Fence(c))

AppendFence(c) ==
    /\ parts < MaxParts
    /\ Inspect(text \o Fence(c))

AppendPlain(p) ==
    /\ parts < MaxParts
    /\ Inspect(text \o p)

\* The whole text is put between three ticks.
Wrap(c) ==
    /\ parts < MaxParts
    /\ text # <<>>
    /\ Inspect(Fence(c) \o text \o Fence(c))

NextText ==
    \/ \E c \in GenTicks, head \in Heads, body \in Bodies : AppendBlock(c, head, body)
    \/ \E c \in GenTicks : AppendFence(c)
    \/ \E p \in Plain : AppendPlain(p)
    \/ \E c \in GenTicks : Wrap(c)

InitText == Init /\ DEBUG_MODE = FALSE

SpecText == InitText /\ [][NextText]_vars

(***************************************************************************)
(* Properties.                                                             *)
(***************************************************************************)
Tracked(id) == id \in DOMAIN codeblock_message_ids

\* The handler of slot k was an edit handler and left by this step.
EditHandlerLeaves(k) ==
    /\ tasks[k].pc \in {"fetch", "delete"}
    /\ tasks'[k] = Idle

\* An edit with text and channel id of a tracked message, for which
\* find_code_blocks returns no block.
FixingEdit(payload) ==
    /\ Tracked(payload.message_id)
    /\ payload.content # NoneVal
    /\ payload.channel_id # "None"
    /\ BlocksOf(payload.content.text) = <<>>

\* C1: when the handler of an edit of a tracked message, with text and
\* channel id and no block left in the text, completes, the bot message was
\* deleted at the collaborator and the entry of the message is removed; the
\* handler does not complete before it has asked for that.
C1_Step ==
    /\ \A payload \in Payloads :
           (FixingEdit(payload) /\ on_raw_message_edit(payload, TRUE))
           => \E k \in Slots :
                  /\ tasks'[k].pc = "fetch"
                  /\ tasks'[k].message_id = payload.message_id
                  /\ tasks'[k].bot_message = codeblock_message_ids[payload.message_id]
    /\ \A k \in Slots :
           (EditHandlerLeaves(k) /\ last'.outcome \notin Errors)
           => /\ tasks[k].bot_message \in bot_messages
              /\ tasks[k].bot_message \notin bot_messages'
              /\ tasks[k].message_id \notin DOMAIN codeblock_message_ids'

C1_FixingEditDeletesAdvisory == [][C1_Step]_vars

C1_Witness ==
    /\ last.handler = "on_raw_message_edit"
    /\ last.outcome = "fixed"
    /\ last.id \in flagged
    /\ ~Tracked(last.id)

\* C2: when the handler of a fixing edit ends and the bot message of the
\* tracked message was already gone when the edit arrived, it has not ended
\* in an error and the entry of the message is removed.
C2_StaleAdvisoryTolerated ==
    ( /\ last.handler = "on_raw_message_edit"
      /\ last.stale
      /\ last.outcome \in {"fixed"} \cup Errors )
    => ( /\ last.outcome \notin Errors
         /\ ~Tracked(last.id) )

\* C3: an edit of a tracked message whose text still has a code block leaves
\* the tracker, the cooldowns and the bot messages as they are, and no handler
\* is left waiting for the collaborator (no fetch, delete or send is called).
C3_Step ==
    \A payload \in Payloads :
        ( /\ Tracked(payload.message_id)
          /\ payload.content # NoneVal
          /\ BlocksOf(payload.content.text) # <<>>
          /\ on_raw_message_edit(payload, TRUE) )
        => UNCHANGED <<codeblock_message_ids, channel_cooldowns, bot_messages,
                       deletion_tasks, tasks, issued>>

C3_UnfixedEditChangesNothing == [][C3_Step]_vars

C3_Witness ==
    /\ last.handler = "on_raw_message_edit"
    /\ last.outcome = "not_fixed"
    /\ Tracked(last.id)
    /\ codeblock_message_ids[last.id] \in bot_messages

\* C4: with DEBUG_MODE off, no message of a channel that is in
\* channel_cooldowns is waiting for its instructions to be sent less than 300
\* after the last instructions were sent in that channel.
C4_NoAdvisoryDuringCooldown ==
    ~DEBUG_MODE =>
        \A k \in Slots :
            ( /\ tasks[k].pc = "send"
              /\ tasks[k].channel_id \in DOMAIN channel_cooldowns
              /\ tasks[k].channel_id \in DOMAIN issued )
            => clock - issued[tasks[k].channel_id] >= Cooldown

C4_Witness ==
    /\ ~DEBUG_MODE
    /\ last.handler = "on_message"
    /\ last.outcome = "cooldown"
    /\ last.channel = "help_1"
    /\ "help_1" \in DOMAIN issued
    /\ clock - issued["help_1"] < Cooldown
    /\ clock - issued["help_1"] > 0

\* C5: a whitelisted channel never gets an entry in channel_cooldowns, and
\* every message of it that should be parsed and has a description is sent
\* its instructions, whenever the last ones were sent.
C5_Step ==
    \A msg \in Messages :
        ( /\ msg.channel.id \in channel_whitelist
          /\ ~msg.author_bot
          /\ ~msg.has_token
          /\ LinesOf(msg.content) > 3
          /\ DescriptionOf(msg.content) \notin {NoneVal, IndexError}
          /\ on_message(msg, TRUE) )
        => \E k \in Slots :
               /\ tasks'[k].pc = "send"
               /\ tasks'[k].message_id = msg.id

C5_WhitelistExemptFromCooldown ==
    /\ [](\A c \in channel_whitelist : c \notin DOMAIN channel_cooldowns)
    /\ [][C5_Step]_vars

C5_Witness ==
    /\ ~DEBUG_MODE
    /\ bot_commands \in DOMAIN issued
    /\ clock - issued[bot_commands] < Cooldown
    /\ \E k \in Slots : tasks[k].pc = "send" /\ tasks[k].channel_id = bot_commands

\* C6: a message of a bot, of 3 or fewer lines, with a token, or of a channel
\* that is in no help category, not in channel_cooldowns and not whitelisted
\* gets no instructions and leaves the tracker and the cooldowns unchanged: a
\* step that changes any of them is not the on_message step of such a message.
C6_Step ==
    ~UNCHANGED <<tasks, bot_messages, codeblock_message_ids, channel_cooldowns, issued>>
    => \A msg \in Messages :
           ( \/ msg.author_bot
             \/ msg.has_token
             \/ /\ msg.channel.category \notin {help_available, help_in_use}
                /\ msg.channel.id \notin DOMAIN channel_cooldowns
                /\ msg.channel.id \notin channel_whitelist
             \/ LinesOf(msg.content) <= 3 )
           => ~on_message(msg, TRUE)

C6_RejectedMessageIgnored == [][C6_Step]_vars

C6_Witness ==
    /\ last.handler = "on_message"
    /\ last.outcome = "token"
    /\ last.channel = bot_commands
    /\ codeblock_message_ids # <<>>

\* C7: an entry is created only when send_guide_embed resumes after the bot
\* message was sent, for the message of that handler and at most once per
\* message; an entry never changes its bot message; and no two messages map
\* to the same bot message.
C7_OneToOne ==
    \A m1, m2 \in DOMAIN codeblock_message_ids :
        codeblock_message_ids[m1] = codeblock_message_ids[m2] => m1 = m2

C7_Step ==
    \A m \in 1..MaxId :
        /\ (~Tracked(m) /\ m \in DOMAIN codeblock_message_ids')
           => /\ m \notin flagged
              /\ \E k \in Slots :
                     /\ tasks[k].pc = "sent"
                     /\ tasks'[k] = Idle
                     /\ tasks[k].message_id = m
                     /\ tasks[k].bot_message \in bot_messages
                     /\ codeblock_message_ids'[m] = tasks[k].bot_message
        /\ (Tracked(m) /\ m \in DOMAIN codeblock_message_ids')
           => codeblock_message_ids'[m] = codeblock_message_ids[m]

C7_TrackerLifecycle == []C7_OneToOne /\ [][C7_Step]_vars

C7_Witness ==
    /\ Cardinality(DOMAIN codeblock_message_ids) = 2
    /\ last.handler = "on_message"
    /\ last.outcome = "sent"

\* C8: an edit without text, without channel id or of a message that is not
\* tracked is ignored: the handler ends without an error, no handler is left
\* waiting for the collaborator, and the tracker, the cooldowns and the bot
\* messages are unchanged: a step that changes any of them or ends in an error
\* is not the step of such an edit.
C8_Step ==
    ~( /\ UNCHANGED <<codeblock_message_ids, channel_cooldowns, bot_messages,
                      deletion_tasks, tasks, issued>>
       /\ last'.outcome \notin Errors )
    => \A payload \in Payloads :
           ( \/ payload.content = NoneVal
             \/ payload.channel_id = "None"
             \/ ~Tracked(payload.message_id) )
           => ~on_raw_message_edit(payload, TRUE)

C8_MalformedEditIgnored == [][C8_Step]_vars

C8_Witness ==
    /\ last.handler = "on_raw_message_edit"
    /\ last.outcome = "ignored"
    /\ Tracked(last.id)
    /\ codeblock_message_ids[last.id] \in bot_messages

\* The pattern matches at position i of s as a block with backticks, a
\* language and more than 3 lines of code.
CorrectBlockAt(s, i) ==
    LET m == MatchAt(s, i)
    IN  /\ m.found
        /\ m.tick = BACKTICK
        /\ Strip(m.lang) # <<>>
        /\ SplitLen3(m.code) > 3

\* C9: for a text that has, anywhere in it, a block with backticks, a
\* language and at least 4 lines, find_code_blocks returns no block.
C9_CorrectBlockAnywhereGivesEmpty ==
    (\E i \in 1..Len(text) : CorrectBlockAt(text, i)) => blocks = <<>>

\* C10: when find_code_blocks returns a block whose tick is not the backtick,
\* the description is the wrong-ticks instructions for the first such block:
\* they name its tick three times and the backtick as the correct one.
FirstBadTicks ==
    LET bad == {i \in 1..Len(blocks) : blocks[i].tick # BACKTICK}
    IN  blocks[CHOOSE i \in bad : \A j \in bad : i <= j]

C10_WrongTicksAlwaysReported ==
    (\E i \in 1..Len(blocks) : blocks[i].tick # BACKTICK)
    => /\ description \notin {NoneVal, IndexError}
       /\ description.kind = "bad_ticks"
       /\ description.wrong_ticks = Fence(FirstBadTicks.tick)
       /\ description.valid_ticks = <<"\\", BACKTICK, "\\", BACKTICK, "\\", BACKTICK>>

\* C11: composing the instructions for a text never ends in a raised error:
\* the description is None or a message.
C11_ComposerTotal == description # IndexError

\* The number of lines of s that start with one of the two prompt markers: a
\* line starts at the first character and after every line break.
PromptLines(s) ==
    Cardinality({i \in 1..Len(s) - 3 :
                    /\ i = 1 \/ s[i - 1] = NL
                    /\ SubSeq(s, i, i + 3) \in {REPL_PROMPT, REPL_CONT}})

\* C12: is_repl_code with the default threshold is true exactly for the texts
\* with at least 3 lines that start with ">>> " or "... ".
C12_ReplIffThreePromptLines ==
    is_repl_code(text, DefaultThreshold) <=> PromptLines(text) >= 3

C12_Witness ==
    /\ PromptLines(text) = 3
    /\ is_repl_code(text, DefaultThreshold)
    /\ \E i \in 1..Len(text) - 3 : SubSeq(text, i, i + 3) = REPL_CONT

\* C13: the edit handler goes on to delete the bot message and the entry only
\* for an edited text for which the composer of on_message emits nothing.
C13_Step ==
    \A payload \in {p \in Payloads : p.message_id = last'.id} :
        ( /\ on_raw_message_edit(payload, TRUE)
          /\ \E k \in Slots : tasks'[k].pc = "fetch" )
        => DescriptionOf(payload.content.text) = NoneVal

C13_DeletedOnlyWhenNothingToReport == [][C13_Step]_vars

\* C14: with DEBUG_MODE off, whenever instructions are sent in a channel that
\* is in channel_cooldowns, the last ones sent in that channel are at least 300
\* old, also when handlers interleave at the await of the send.
C14_Step ==
    \A k \in Slots :
        ( /\ ~DEBUG_MODE
          /\ tasks[k].pc = "send"
          /\ tasks'[k].pc = "sent"
          /\ tasks[k].channel_id \in DOMAIN channel_cooldowns
          /\ tasks[k].channel_id \in DOMAIN issued )
        => clock - issued[tasks[k].channel_id] >= Cooldown

C14_OneAdvisoryPerWindowInterleaved == [][C14_Step]_vars

\* C15: an edit handler of a message whose bot message existed when the edit
\* arrived and whose entry a fixing edit has removed does not end in an error,
\* however the handlers interleave at fetch_message and delete.
C15_InterleavedEditsWithoutError ==
    ( /\ last.handler = "on_raw_message_edit"
      /\ ~last.stale
      /\ last.id \in flagged
      /\ ~Tracked(last.id) )
    => last.outcome \notin Errors

\* C16: the instructions for a missing language, on their own or after
\* "Furthermore," in the wrong-ticks instructions, are composed only for a
\* block without a language.
C16_NoLangOnlyForUntaggedBlock ==
    /\ ( /\ description \notin {NoneVal, IndexError}
         /\ description.kind = "no_lang" )
       => blocks[1].language = <<>>
    /\ ( /\ description \notin {NoneVal, IndexError}
         /\ description.kind = "bad_ticks"
         /\ description.furthermore # NoneVal
         /\ description.furthermore.kind = "no_lang" )
       => FirstBadTicks.language = <<>>

\* C17: the instructions for a badly specified language, whenever composed,
\* name a leading space before the language or a missing line break after it.
C17_BadLangNamesDefect ==
    LET d == IF /\ description \notin {NoneVal, IndexError}
                /\ description.kind = "bad_ticks"
             THEN description.furthermore
             ELSE description
    IN  ( /\ d \notin {NoneVal, IndexError}
          /\ d.kind = "bad_lang" )
        => (d.leading_space \/ d.no_newline)

\* The lines of a block's content, the line break that follows the opening
\* ticks not counted as a line.
ContentLines(content) ==
    IF content # <<>> /\ Head(content) = NL
    THEN Len(SplitNL(Tail(content), <<>>))
    ELSE Len(SplitNL(content, <<>>))

\* C18: every block find_code_blocks returns has more than 3 lines of content
\* and one of TICKS as its tick.
C18_ReturnedBlocksHaveFourLines ==
    \A i \in 1..Len(blocks) :
        /\ ContentLines(blocks[i].content) > 3
        /\ blocks[i].tick \in TICKS

\* The pattern matches at position i of s as a block with backticks and a
\* language.
TaggedBlockAt(s, i) ==
    LET m == MatchAt(s, i)
    IN  /\ m.found
        /\ m.tick = BACKTICK
        /\ Strip(m.lang) # <<>>

\* C19: for a text that has a block with backticks and a language, whatever
\* else it has, no instructions are composed.
C19_TaggedBlockNeverAdvised ==
    (\E i \in 1..Len(text) : TaggedBlockAt(text, i)) => description = NoneVal

====
